---- MODULE Spec2Model ----
(***************************************************************************)
(* Renderable-object resource lifecycle of the wave / lambda engine.       *)
(*                                                                         *)
(* The model follows lambda_engine/src/shapes/mod.rs: a Shape owns its     *)
(* configuration (texture bytes, indexed flag), its generated geometry and *)
(* three optional GPU resources (texture_buffer, graphics_pipeline,        *)
(* buffers).  The Vulkan device is modelled as an allocator of native      *)
(* handles (`handles`, one entry per handle ever created) together with    *)
(* the ordered log of destroy/free calls it received (`freed`).  A Rust    *)
(* panic (Option::unwrap on None, slice index out of bounds) aborts the    *)
(* program: it is recorded in `fault` and no operation runs afterwards.    *)
(***************************************************************************)
EXTENDS Integers, Sequences, FiniteSets, TLC

VARIABLES shapes, handles, freed, swap_chain, phase, cmds, fault, calls, ncalls,
          lastOp, call

vars == <<shapes, handles, freed, swap_chain, phase, cmds, fault, calls, ncalls,
          lastOp, call>>

(***************************************************************************)
(* Bounds of the exploration.                                              *)
(***************************************************************************)
\* Shapes in the engine's collection.
NumShapes == 2
\* Lifecycle calls (construct, recreation halves, destroy) explored per run.
MaxCalls == 5

Shapes == 1..NumShapes

\* Swapchain image counts the surface may hand out.
ImageCounts == {2, 3}

(***************************************************************************)
(* Option<T>: None is the empty tuple, Some(x) the one-element tuple.      *)
(***************************************************************************)
None == <<>>
Some(x) == <<x>>
is_some(o) == o # <<>>
unwrap(o) == o[1]

Min(a, b) == IF a <= b THEN a ELSE b

(***************************************************************************)
(* The file system seen by ShapeBuilder::texture: one path that opens and  *)
(* holds image bytes, one path that cannot be opened.                      *)
(***************************************************************************)
Paths == {"saturn.jpg", "missing.jpg"}
File_open(path) == IF path = "saturn.jpg" THEN Some(<<137, 80>>) ELSE None

\* ShapeBuilder::texture: the bytes are set only when the file opens.
ShapeBuilder_texture(builder, path) ==
    LET file == File_open(path)
    IN  IF is_some(file) THEN [builder EXCEPT !.texture = unwrap(file)]
        ELSE builder

(***************************************************************************)
(* Cube geometry (shapes/l3d/cube.rs).  Positions are kept in half units   *)
(* (-0.5 is -1, 0.5 is 1) and multiplied by the radius.                    *)
(***************************************************************************)
CUBE_VERTICES ==
    << <<-1, -1, 1>>,  <<1, -1, 1>>,   <<1, 1, 1>>,    <<-1, 1, 1>>,
       <<-1, 1, -1>>,  <<1, 1, -1>>,   <<1, -1, -1>>,  <<-1, -1, -1>>,
       <<-1, 1, 1>>,   <<-1, 1, -1>>,  <<-1, -1, -1>>, <<-1, -1, 1>>,
       <<1, -1, 1>>,   <<1, -1, -1>>,  <<1, 1, -1>>,   <<1, 1, 1>>,
       <<1, 1, 1>>,    <<1, 1, -1>>,   <<-1, 1, -1>>,  <<-1, 1, 1>>,
       <<1, -1, -1>>,  <<1, -1, 1>>,   <<-1, -1, 1>>,  <<-1, -1, -1>> >>

CUBE_INDICES ==
    << 0, 1, 2, 2, 3, 0,
       4, 5, 6, 6, 7, 4,
       8, 9, 10, 8, 10, 11,
       12, 13, 14, 12, 14, 15,
       16, 17, 18, 16, 18, 19,
       20, 21, 22, 20, 22, 23 >>

\* What a call gives back: a value, or the panic that ended it.
Returned(value) == [ret |-> Some(value), fault |-> "none"]
Panicked(why) == [ret |-> None, fault |-> why]

WHITE == <<1, 1, 1>>

\* square_from_vertices as it would be if every vertex got the first corner
square_from_vertices_one_corner(vertices) ==
    IF Len(vertices) > 4 * (Len(vertices) \div 4)
    THEN Panicked("index_out_of_bounds")
    ELSE Returned([k \in 1..Len(vertices) |->
                      [pos |-> vertices[k], colour |-> WHITE,
                       normal |-> <<0, 0, 0>>, tex_coord |-> <<1, 0>>]])

\* square_from_vertices: the four texture corners repeated once per whole
\* group of four positions; tex_coords[index] panics past their end
square_from_vertices(vertices) ==
    LET tex_coord  == << <<1, 0>>, <<0, 0>>, <<0, 1>>, <<1, 1>> >>
        tex_coords == [k \in 1..(4 * (Len(vertices) \div 4)) |->
                          tex_coord[((k - 1) % 4) + 1]]
    IN  IF Len(vertices) > Len(tex_coords) THEN Panicked("index_out_of_bounds")
        ELSE Returned([k \in 1..Len(vertices) |->
                          [pos |-> vertices[k], colour |-> WHITE,
                           normal |-> <<0, 0, 0>>,
                           tex_coord |-> tex_coords[k]]])

\* normalize: the vector divided by its length (NaN components for the zero
\* vector); only lengths that are whole numbers occur
normalize(v) ==
    LET n2 == v[1] * v[1] + v[2] * v[2] + v[3] * v[3]
        l  == CHOOSE x \in 0..n2 : x * x = n2
    IN  IF n2 = 0 THEN <<"NaN", "NaN", "NaN">>
        ELSE <<v[1] \div l, v[2] \div l, v[3] \div l>>

cross(a, b) ==
    <<a[2] * b[3] - a[3] * b[2], a[3] * b[1] - a[1] * b[3],
      a[1] * b[2] - a[2] * b[1]>>

sub(p, q) == <<p[1] - q[1], p[2] - q[2], p[3] - q[3]>>

\* utility::calculate_normals: the normalized cross product of two edges of
\* the face, given to every vertex of the face
calculate_normals(face) ==
    LET a == sub(face[3].pos, face[2].pos)
        b == sub(face[1].pos, face[2].pos)
        n == normalize(cross(a, b))
    IN  [k \in DOMAIN face |-> [face[k] EXCEPT !.normal = n]]

\* utility::scale: the positions of the face multiplied by the radius
scale(face, radius) ==
    [k \in DOMAIN face |->
        [face[k] EXCEPT !.pos = <<@[1] * radius, @[2] * radius, @[3] * radius>>]]

\* Cube::vertices_and_indices as it would be without the scaling step
vertices_and_indices_unscaled(sh) ==
    LET vertices == unwrap(square_from_vertices(CUBE_VERTICES).ret)
        face(c)  == calculate_normals(SubSeq(vertices, 4 * c + 1, 4 * c + 4))
    IN  [sh EXCEPT !.vertices_and_indices =
            [vertices |-> [k \in 1..Len(vertices) |->
                              face((k - 1) \div 4)[((k - 1) % 4) + 1]],
             indices  |-> CUBE_INDICES]]

\* Cube::vertices_and_indices: regenerates the geometry from the properties.
\* CUBE_VERTICES are the positions handed to square_from_vertices; each chunk
\* of 4 vertices gets its normal and is then scaled.
vertices_and_indices(sh) ==
    LET vertices == unwrap(square_from_vertices(CUBE_VERTICES).ret)
        face(c)  == scale(calculate_normals(
                              SubSeq(vertices, 4 * c + 1, 4 * c + 4)),
                          sh.properties.radius)
    IN  [sh EXCEPT !.vertices_and_indices =
            [vertices |-> [k \in 1..Len(vertices) |->
                              face((k - 1) \div 4)[((k - 1) % 4) + 1]],
             indices  |-> CUBE_INDICES]]

\* Default::default() of VerticesAndIndices
EmptyGeometry == [vertices |-> <<>>, indices |-> <<>>]

(***************************************************************************)
(* Device collaborators.  Every create call returns handles never handed   *)
(* out before: a handle is its position in `handles`, whose entry is the   *)
(* kind of object.                                                         *)
(***************************************************************************)
Texture_new(hs) ==
    LET h == Len(hs)
    IN  [hs  |-> hs \o <<"sampler", "image_view", "image", "image_memory">>,
         val |-> [sampler |-> h + 1, image_view |-> h + 2,
                  image |-> [image |-> h + 3, memory |-> h + 4]]]

\* the buffer holds a copy of `data`; len is the number of elements copied
create_vertex_index_buffer(hs, data, usage) ==
    LET h == Len(hs)
    IN  [hs  |-> hs \o (IF usage = "VERTEX_BUFFER"
                        THEN <<"vertex_buffer", "vertex_memory">>
                        ELSE <<"index_buffer", "index_memory">>),
         val |-> [buffer |-> h + 1, memory |-> h + 2, len |-> Len(data)]]

\* GraphicsPipeline::new: one uniform buffer and one descriptor set per
\* swapchain image, besides the layouts, the pool and the pipeline itself.
GraphicsPipeline_new(sc, tex, hs) ==
    LET h == Len(hs)
        n == Len(sc.images)
    IN  [hs  |-> hs \o <<"descriptor_set_layout", "descriptor_pool">>
                    \o [j \in 1..(2 * n) |-> IF j % 2 = 1 THEN "uniform_buffer"
                                                          ELSE "uniform_memory"]
                    \o [j \in 1..n |-> "descriptor_set"]
                    \o <<"pipeline_layout", "pipeline">>,
         val |-> [features |-> [pipeline |-> h + 3 * n + 4,
                                layout   |-> h + 3 * n + 3],
                  descriptor_set |->
                     [descriptor_set_layout |-> h + 1,
                      descriptor_pool |-> h + 2,
                      uniform_buffers |-> [i \in 1..n |->
                          [buffer |-> h + 2 * i + 1, memory |-> h + 2 * i + 2]],
                      descriptor_sets |-> [i \in 1..n |-> h + 2 * n + 2 + i]],
                  image_view |-> tex.image_view,
                  sampler |-> tex.sampler]]

\* SwapChain with n images
SwapChain(n) == [images |-> [i \in 1..n |-> i]]

(***************************************************************************)
(* private::Object for Shape<T>                                            *)
(***************************************************************************)
\* fn buffers(&mut self, model_buffers)
buffers(sh, model_buffers) == [sh EXCEPT !.buffers = Some(model_buffers)]

\* texture as it would be if the device texture were created whatever the bytes
texture_always(sh, hs) ==
    LET t == Texture_new(hs)
    IN  [sh |-> [sh EXCEPT !.texture_buffer = Some(t.val)], hs |-> t.hs]

\* fn texture(&mut self, ..): a device texture only for non-empty bytes
texture(sh, hs) ==
    IF sh.texture # <<>>
    THEN LET t == Texture_new(hs)
         IN  [sh |-> [sh EXCEPT !.texture_buffer = Some(t.val)], hs |-> t.hs]
    ELSE [sh |-> sh, hs |-> hs]

\* VerticesAndIndices::create_buffers: vertex buffer, then index buffer
create_buffers(vi, hs) ==
    LET vertex == create_vertex_index_buffer(hs, vi.vertices, "VERTEX_BUFFER")
        index  == create_vertex_index_buffer(vertex.hs, vi.indices,
                                             "INDEX_BUFFER")
    IN  [hs |-> index.hs, val |-> [vertex |-> vertex.val, index |-> index.val]]

\* graphics_pipeline as it would be if an existing pipeline were kept
\* instead of being replaced
graphics_pipeline_keeps_old(sh, sc, hs) ==
    IF ~is_some(sh.texture_buffer)
    THEN [sh |-> sh, hs |-> hs, fault |-> "unwrap_none"]
    ELSE IF is_some(sh.graphics_pipeline)
    THEN [sh |-> sh, hs |-> hs, fault |-> "none"]
    ELSE LET p == GraphicsPipeline_new(sc, unwrap(sh.texture_buffer), hs)
         IN  [sh |-> [sh EXCEPT !.graphics_pipeline = Some(p.val)],
              hs |-> p.hs, fault |-> "none"]

\* fn graphics_pipeline(&mut self, ..): unwraps texture_buffer
graphics_pipeline(sh, sc, hs) ==
    IF ~is_some(sh.texture_buffer)
    THEN [sh |-> sh, hs |-> hs, fault |-> "unwrap_none"]
    ELSE LET p == GraphicsPipeline_new(sc, unwrap(sh.texture_buffer), hs)
         IN  [sh |-> [sh EXCEPT !.graphics_pipeline = Some(p.val)],
              hs |-> p.hs, fault |-> "none"]

\* construct as it would be if the created buffers were never stored
construct_skips_buffers(sh, sc, hs) ==
    LET t  == texture(sh, hs)
        g  == vertices_and_indices(t.sh)
        mb == create_buffers(g.vertices_and_indices, t.hs)
    IN  graphics_pipeline(g, sc, mb.hs)

\* construct as it would be if the buffers were created before the geometry
\* of this call was generated
construct_buffers_before_geometry(sh, sc, hs) ==
    LET t  == texture(sh, hs)
        mb == create_buffers(t.sh.vertices_and_indices, t.hs)
        g  == vertices_and_indices(t.sh)
        b  == buffers(g, mb.val)
    IN  graphics_pipeline(b, sc, mb.hs)

\* Object::construct
construct(sh, sc, hs) ==
    LET t  == texture(sh, hs)
        g  == vertices_and_indices(t.sh)
        mb == create_buffers(g.vertices_and_indices, t.hs)
        b  == buffers(g, mb.val)
    IN  graphics_pipeline(b, sc, mb.hs)

\* One recorded command of the command buffer.
Cmd(op, handle, handle2, count, offsets, index_type) ==
    [op |-> op, handle |-> handle, handle2 |-> handle2, count |-> count,
     offsets |-> offsets, index_type |-> index_type]

\* bind_index_and_vertex_buffers as it would be if a Shape without pipeline
\* were skipped instead of unwrapped
bind_skips_unbuilt(sh, offsets, index) ==
    IF ~is_some(sh.graphics_pipeline)
    THEN [cmds |-> <<>>, fault |-> "none"]
    ELSE
    LET gp == unwrap(sh.graphics_pipeline)
        c1 == <<Cmd("cmd_bind_pipeline", gp.features.pipeline, 0, 0, <<>>, "")>>
    IN  IF index + 1 > Len(gp.descriptor_set.descriptor_sets)
        THEN [cmds |-> c1, fault |-> "index_out_of_bounds"]
        ELSE
        LET c2 == c1 \o <<Cmd("cmd_bind_descriptor_sets",
                              gp.descriptor_set.descriptor_sets[index + 1],
                              gp.features.layout, 0, <<>>, "")>>
        IN  IF ~is_some(sh.buffers)
            THEN [cmds |-> c2, fault |-> "none"]
            ELSE
            LET ob == unwrap(sh.buffers)
                vi == sh.vertices_and_indices
                c3 == c2 \o <<Cmd("cmd_bind_vertex_buffers", ob.vertex.buffer,
                                  0, 0, offsets, "")>>
                c4 == c3 \o <<Cmd("cmd_draw", 0, 0, Len(vi.vertices), <<>>, "")>>
                c6 == c4 \o <<Cmd("cmd_bind_index_buffer", ob.index.buffer,
                                  0, 0, <<0>>, "UINT16"),
                              Cmd("cmd_draw_indexed", 0, 0, Len(vi.indices),
                                  <<>>, "")>>
            IN  [cmds |-> IF sh.indexed THEN c6 ELSE c4, fault |-> "none"]

\* bind_index_and_vertex_buffers as it would be if the draw were recorded
\* before the vertex buffer is bound
bind_draws_before_vertex_buffer(sh, offsets, index) ==
    IF ~is_some(sh.graphics_pipeline)
    THEN [cmds |-> <<>>, fault |-> "unwrap_none"]
    ELSE
    LET gp == unwrap(sh.graphics_pipeline)
        c1 == <<Cmd("cmd_bind_pipeline", gp.features.pipeline, 0, 0, <<>>, "")>>
    IN  IF index + 1 > Len(gp.descriptor_set.descriptor_sets)
        THEN [cmds |-> c1, fault |-> "index_out_of_bounds"]
        ELSE
        LET c2 == c1 \o <<Cmd("cmd_bind_descriptor_sets",
                              gp.descriptor_set.descriptor_sets[index + 1],
                              gp.features.layout, 0, <<>>, "")>>
        IN  IF ~is_some(sh.buffers)
            THEN [cmds |-> c2, fault |-> "unwrap_none"]
            ELSE
            LET ob == unwrap(sh.buffers)
                vi == sh.vertices_and_indices
                c3 == c2 \o <<Cmd("cmd_draw", 0, 0, Len(vi.vertices), <<>>, "")>>
                c4 == c3 \o <<Cmd("cmd_bind_vertex_buffers", ob.vertex.buffer,
                                  0, 0, offsets, "")>>
                c6 == c4 \o <<Cmd("cmd_bind_index_buffer", ob.index.buffer,
                                  0, 0, <<0>>, "UINT16"),
                              Cmd("cmd_draw_indexed", 0, 0, Len(vi.indices),
                                  <<>>, "")>>
            IN  [cmds |-> IF sh.indexed THEN c6 ELSE c4, fault |-> "none"]

\* private::Object::bind_index_and_vertex_buffers (index is 0-based)
bind_index_and_vertex_buffers(sh, offsets, index) ==
    IF ~is_some(sh.graphics_pipeline)
    THEN [cmds |-> <<>>, fault |-> "unwrap_none"]
    ELSE
    LET gp == unwrap(sh.graphics_pipeline)
        c1 == <<Cmd("cmd_bind_pipeline", gp.features.pipeline, 0, 0, <<>>, "")>>
    IN  IF index + 1 > Len(gp.descriptor_set.descriptor_sets)
        THEN [cmds |-> c1, fault |-> "index_out_of_bounds"]
        ELSE
        LET c2 == c1 \o <<Cmd("cmd_bind_descriptor_sets",
                              gp.descriptor_set.descriptor_sets[index + 1],
                              gp.features.layout, 0, <<>>, "")>>
        IN  IF ~is_some(sh.buffers)
            THEN [cmds |-> c2, fault |-> "unwrap_none"]
            ELSE
            LET ob == unwrap(sh.buffers)
                vi == sh.vertices_and_indices
                c3 == c2 \o <<Cmd("cmd_bind_vertex_buffers", ob.vertex.buffer,
                                  0, 0, offsets, "")>>
                c4 == c3 \o <<Cmd("cmd_draw", 0, 0, Len(vi.vertices), <<>>, "")>>
                c6 == c4 \o <<Cmd("cmd_bind_index_buffer", ob.index.buffer,
                                  0, 0, <<0>>, "UINT16"),
                              Cmd("cmd_draw_indexed", 0, 0, Len(vi.indices),
                                  <<>>, "")>>
            IN  [cmds |-> IF sh.indexed THEN c6 ELSE c4, fault |-> "none"]

\* destroy as it would be if the buffers were released before the texture
destroy_buffers_first(sh) ==
    IF ~is_some(sh.buffers)
    THEN [freed |-> <<>>, fault |-> "unwrap_none"]
    ELSE
    LET ob == unwrap(sh.buffers)
        f1 == <<ob.vertex.buffer, ob.vertex.memory,
                ob.index.buffer, ob.index.memory>>
    IN  IF ~is_some(sh.texture_buffer)
        THEN [freed |-> f1, fault |-> "unwrap_none"]
        ELSE
        LET ot == unwrap(sh.texture_buffer)
            f2 == f1 \o <<ot.sampler, ot.image_view, ot.image.image,
                          ot.image.memory>>
        IN  IF ~is_some(sh.graphics_pipeline)
            THEN [freed |-> f2, fault |-> "unwrap_none"]
            ELSE [freed |-> f2 \o <<unwrap(sh.graphics_pipeline)
                                      .descriptor_set.descriptor_set_layout>>,
                  fault |-> "none"]

\* private::Object::destroy: the handles passed to the device, in call order
destroy(sh) ==
    IF ~is_some(sh.texture_buffer)
    THEN [freed |-> <<>>, fault |-> "unwrap_none"]
    ELSE
    LET ot == unwrap(sh.texture_buffer)
        f1 == <<ot.sampler, ot.image_view, ot.image.image, ot.image.memory>>
    IN  IF ~is_some(sh.graphics_pipeline)
        THEN [freed |-> f1, fault |-> "unwrap_none"]
        ELSE
        LET gp == unwrap(sh.graphics_pipeline)
            f2 == f1 \o <<gp.descriptor_set.descriptor_set_layout>>
        IN  IF ~is_some(sh.buffers)
            THEN [freed |-> f2, fault |-> "unwrap_none"]
            ELSE
            LET ob == unwrap(sh.buffers)
            IN  [freed |-> f2 \o <<ob.vertex.buffer, ob.vertex.memory,
                                   ob.index.buffer, ob.index.memory>>,
                 fault |-> "none"]

\* recreate_drop as it would be if it also tore down the vertex buffer
recreate_drop_frees_vertex_buffer(sh, sc) ==
    IF ~is_some(sh.graphics_pipeline)
    THEN [freed |-> <<>>, fault |-> "unwrap_none"]
    ELSE
    LET gp  == unwrap(sh.graphics_pipeline)
        ubs == gp.descriptor_set.uniform_buffers
        n   == Len(sc.images)
        k   == Min(n, Len(ubs))
    IN  [freed |-> <<gp.features.pipeline, gp.features.layout,
                     gp.descriptor_set.descriptor_pool>>
                   \o [j \in 1..(2 * k) |->
                          IF j % 2 = 1 THEN ubs[(j + 1) \div 2].buffer
                                       ELSE ubs[j \div 2].memory]
                   \o (IF is_some(sh.buffers)
                       THEN <<unwrap(sh.buffers).vertex.buffer,
                              unwrap(sh.buffers).vertex.memory>>
                       ELSE <<>>),
         fault |-> IF n > Len(ubs) THEN "index_out_of_bounds" ELSE "none"]

\* recreate_drop as it would be if the loop ran over two images whatever the
\* swapchain
recreate_drop_two_images(sh, sc) ==
    IF ~is_some(sh.graphics_pipeline)
    THEN [freed |-> <<>>, fault |-> "unwrap_none"]
    ELSE
    LET gp  == unwrap(sh.graphics_pipeline)
        ubs == gp.descriptor_set.uniform_buffers
        k   == Min(2, Len(ubs))
    IN  [freed |-> <<gp.features.pipeline, gp.features.layout,
                     gp.descriptor_set.descriptor_pool>>
                   \o [j \in 1..(2 * k) |->
                          IF j % 2 = 1 THEN ubs[(j + 1) \div 2].buffer
                                       ELSE ubs[j \div 2].memory],
         fault |-> IF 2 > Len(ubs) THEN "index_out_of_bounds" ELSE "none"]

\* private::Object::recreate_drop: the loop runs over the images of the
\* swapchain it is given and indexes the pipeline's uniform buffers.
recreate_drop(sh, sc) ==
    IF ~is_some(sh.graphics_pipeline)
    THEN [freed |-> <<>>, fault |-> "unwrap_none"]
    ELSE
    LET gp  == unwrap(sh.graphics_pipeline)
        ubs == gp.descriptor_set.uniform_buffers
        n   == Len(sc.images)
        k   == Min(n, Len(ubs))
    IN  [freed |-> <<gp.features.pipeline, gp.features.layout,
                     gp.descriptor_set.descriptor_pool>>
                   \o [j \in 1..(2 * k) |->
                          IF j % 2 = 1 THEN ubs[(j + 1) \div 2].buffer
                                       ELSE ubs[j \div 2].memory],
         fault |-> IF n > Len(ubs) THEN "index_out_of_bounds" ELSE "none"]

(***************************************************************************)
(* The engine around the Shape collection.  The collection is walked in    *)
(* insertion order; a panic stops the walk.  Every Shape owns its handles  *)
(* exclusively, so a native handle is named by the owning Shape and the    *)
(* position of its creation among that Shape's creations: handles[s] lists *)
(* the kinds of the handles created for Shape s, freed[s] the handles of   *)
(* Shape s passed to a device destroy/free call, in call order.            *)
(***************************************************************************)
RECURSIVE recreate_drop_all(_, _, _, _)
recreate_drop_all(i, shs, sc, fr) ==
    IF i > NumShapes THEN [freed |-> fr, fault |-> "none"]
    ELSE LET r == recreate_drop(shs[i], sc)
             f == [fr EXCEPT ![i] = @ \o r.freed]
         IN  IF r.fault # "none" THEN [freed |-> f, fault |-> r.fault]
             ELSE recreate_drop_all(i + 1, shs, sc, f)

RECURSIVE graphics_pipeline_all(_, _, _, _)
graphics_pipeline_all(i, shs, sc, hs) ==
    IF i > NumShapes THEN [shapes |-> shs, hs |-> hs, fault |-> "none"]
    ELSE LET r == graphics_pipeline(shs[i], sc, hs[i])
         IN  IF r.fault # "none"
             THEN [shapes |-> shs, hs |-> hs, fault |-> r.fault]
             ELSE graphics_pipeline_all(i + 1, [shs EXCEPT ![i] = r.sh], sc,
                                        [hs EXCEPT ![i] = r.hs])

Op(op, shape, index) == [op |-> op, shape |-> shape, index |-> index]

\* One call of a free function: its name, its arguments and, once it has run,
\* what it returned (None while pending) or the panic that ended it.
Call(fn, args) == [fn |-> fn, args |-> args, ret |-> None, fault |-> "none"]
NoCall == Call("none", <<>>)

\* A Shape as ShapeBuilder::build leaves it: configuration only.
NewShape(path, indexed, radius) ==
    ShapeBuilder_texture(
        [properties |-> [radius |-> radius],
         texture |-> <<>>,
         indexed |-> indexed,
         vertices_and_indices |-> EmptyGeometry,
         texture_buffer |-> None,
         graphics_pipeline |-> None,
         buffers |-> None],
        path)

Init ==
    /\ shapes \in [Shapes -> {NewShape(p, ix, 1) : p \in Paths, ix \in BOOLEAN}]
    /\ handles = [s \in Shapes |-> <<>>]
    /\ freed = [s \in Shapes |-> <<>>]
    /\ swap_chain \in {SwapChain(n) : n \in ImageCounts}
    /\ phase = "Active"
    /\ cmds = <<>>
    /\ fault = "none"
    /\ calls = [s \in Shapes |-> [construct |-> 0, destroy |-> 0]]
    /\ ncalls = 0
    /\ lastOp = Op("new", 0, 0)
    /\ call = NoCall

\* engine: build one Shape of the collection
Construct(s) ==
    /\ fault = "none"
    /\ ncalls < MaxCalls
    /\ LET r == construct(shapes[s], swap_chain, handles[s])
       IN  /\ shapes' = [shapes EXCEPT ![s] = r.sh]
           /\ handles' = [handles EXCEPT ![s] = r.hs]
           /\ fault' = r.fault
    /\ calls' = [calls EXCEPT ![s].construct = @ + 1]
    /\ ncalls' = ncalls + 1
    /\ lastOp' = Op("construct", s, 0)
    /\ cmds' = <<>>
    /\ UNCHANGED <<call, freed, swap_chain, phase>>

\* dispatcher: record the draw of one Shape for swapchain image `index`
Draw(s, offsets, index) ==
    /\ fault = "none"
    /\ phase = "Active"
    /\ LET r == bind_index_and_vertex_buffers(shapes[s], offsets, index)
       IN  /\ cmds' = r.cmds
           /\ fault' = r.fault
    /\ lastOp' = Op("draw", s, index)
    /\ UNCHANGED <<call, shapes, handles, freed, swap_chain, phase, calls, ncalls>>

\* resize, first half: drop what depends on the old swapchain
RecreateDrop ==
    /\ fault = "none"
    /\ phase = "Active"
    /\ ncalls < MaxCalls
    /\ LET r == recreate_drop_all(1, shapes, swap_chain, freed)
       IN  /\ freed' = r.freed
           /\ fault' = r.fault
    /\ phase' = "Recreating"
    /\ ncalls' = ncalls + 1
    /\ calls' = calls
    /\ lastOp' = Op("recreate_drop", 0, 0)
    /\ cmds' = <<>>
    /\ UNCHANGED <<call, shapes, handles, swap_chain>>

\* resize, second half: new swapchain, every pipeline rebuilt against it
RecreatePipelines(n) ==
    /\ fault = "none"
    /\ phase = "Recreating"
    /\ ncalls < MaxCalls
    /\ swap_chain' = SwapChain(n)
    /\ LET r == graphics_pipeline_all(1, shapes, swap_chain', handles)
       IN  /\ shapes' = r.shapes
           /\ handles' = r.hs
           /\ fault' = r.fault
    /\ phase' = "Active"
    /\ lastOp' = Op("graphics_pipeline", 0, 0)
    /\ ncalls' = ncalls + 1
    /\ cmds' = <<>>
    /\ UNCHANGED <<call, freed, calls>>

\* shutdown of one Shape
Destroy(s) ==
    /\ fault = "none"
    /\ ncalls < MaxCalls
    /\ LET r == destroy(shapes[s])
       IN  /\ freed' = [freed EXCEPT ![s] = @ \o r.freed]
           /\ fault' = r.fault
    /\ calls' = [calls EXCEPT ![s].destroy = @ + 1]
    /\ ncalls' = ncalls + 1
    /\ lastOp' = Op("destroy", s, 0)
    /\ cmds' = <<>>
    /\ UNCHANGED <<call, shapes, handles, swap_chain, phase>>

Next ==
    \/ \E s \in Shapes : Construct(s)
    \/ \E s \in Shapes, i \in 0..(Len(swap_chain.images) - 1) : Draw(s, <<0>>, i)
    \/ RecreateDrop
    \/ \E n \in ImageCounts : RecreatePipelines(n)
    \/ \E s \in Shapes : Destroy(s)

Spec == Init /\ [][Next]_vars

(***************************************************************************)
(* Vocabulary of the properties.                                           *)
(***************************************************************************)
\* how often handle h of Shape s was passed to a device destroy/free call
RelCount(s, h) == Cardinality({i \in DOMAIN freed[s] : freed[s][i] = h})

\* the kinds of native handle a Shape has to give back to the device
\* (descriptor sets go with their pool)
OwnedKinds ==
    {"sampler", "image_view", "image", "image_memory",
     "vertex_buffer", "vertex_memory", "index_buffer", "index_memory",
     "descriptor_set_layout", "descriptor_pool", "uniform_buffer",
     "uniform_memory", "pipeline_layout", "pipeline"}

FullyBuilt(sh) ==
    /\ is_some(sh.buffers)
    /\ is_some(sh.graphics_pipeline)
    /\ (sh.texture # <<>> => is_some(sh.texture_buffer))

FullyUnbuilt(sh) ==
    /\ ~is_some(sh.buffers)
    /\ ~is_some(sh.graphics_pipeline)
    /\ ~is_some(sh.texture_buffer)

DrawCmds == SelectSeq(cmds, LAMBDA c : c.op \in {"cmd_draw", "cmd_draw_indexed"})

\* the step just taken was this call, on this Shape
ConstructStep(s) == lastOp' = Op("construct", s, 0) /\ ncalls' = ncalls + 1
DestroyStep(s) == lastOp' = Op("destroy", s, 0) /\ ncalls' = ncalls + 1
RecreateDropStep == lastOp' = Op("recreate_drop", 0, 0) /\ ncalls' = ncalls + 1
RecreatePipelinesStep ==
    lastOp' = Op("graphics_pipeline", 0, 0) /\ ncalls' = ncalls + 1

\* the handles Shape s passed to the device in the step just taken
FreedInStep(s) == SubSeq(freed'[s], Len(freed[s]) + 1, Len(freed'[s]))

(***************************************************************************)
(* C1: every recorded draw of a built Shape consists of exactly one draw   *)
(* command: cmd_draw with vertex_count = number of vertices when the Shape *)
(* is not indexed, cmd_draw_indexed (UINT16 index buffer, index_count =    *)
(* number of indices) when it is; an indexed Shape gets no cmd_draw.       *)
(***************************************************************************)
C1_ExactlyOneDrawCommand ==
    (lastOp.op = "draw" /\ fault = "none") =>
        LET sh == shapes[lastOp.shape]
            vi == sh.vertices_and_indices
        IN  /\ Len(DrawCmds) = 1
            /\ IF sh.indexed
               THEN /\ DrawCmds[1].op = "cmd_draw_indexed"
                    /\ DrawCmds[1].count = Len(vi.indices)
                    /\ \E i \in DOMAIN cmds :
                          /\ cmds[i].op = "cmd_bind_index_buffer"
                          /\ cmds[i].index_type = "UINT16"
               ELSE /\ DrawCmds[1].op = "cmd_draw"
                    /\ DrawCmds[1].count = Len(vi.vertices)

(***************************************************************************)
(* C2: once a Shape has been shut down with destroy, after any number of   *)
(* swapchain recreations, every native handle it acquired has been         *)
(* released exactly once.                                                  *)
(***************************************************************************)
C2_EveryHandleReleasedOnce ==
    (lastOp.op = "destroy" /\ fault = "none") =>
        LET s == lastOp.shape
        IN  \A h \in DOMAIN handles[s] :
                handles[s][h] \in OwnedKinds => RelCount(s, h) = 1

(***************************************************************************)
(* C3: a swapchain recreation replaces the pipeline handle of every built  *)
(* Shape by a handle never used before and leaves its vertex buffer, index *)
(* buffer, texture handles and generated geometry as they were; the drop   *)
(* half passes none of the buffer or texture handles to the device.        *)
(***************************************************************************)
C3_RecreationReplacesOnlyPipeline ==
    [][/\ (RecreateDropStep /\ fault' = "none") =>
             /\ shapes' = shapes
             /\ \A s \in Shapes : \A i \in DOMAIN FreedInStep(s) :
                    handles[s][FreedInStep(s)[i]] \in
                        {"pipeline", "pipeline_layout", "descriptor_pool",
                         "uniform_buffer", "uniform_memory"}
       /\ (RecreatePipelinesStep /\ fault' = "none") =>
             \A s \in Shapes :
                /\ is_some(shapes[s].graphics_pipeline)
                /\ is_some(shapes'[s].graphics_pipeline)
                /\ unwrap(shapes'[s].graphics_pipeline).features.pipeline
                      # unwrap(shapes[s].graphics_pipeline).features.pipeline
                /\ unwrap(shapes'[s].graphics_pipeline).features.pipeline
                      \notin DOMAIN handles[s]
                /\ shapes'[s].buffers = shapes[s].buffers
                /\ shapes'[s].texture_buffer = shapes[s].texture_buffer
                /\ shapes'[s].vertices_and_indices = shapes[s].vertices_and_indices
                /\ freed' = freed
      ]_vars

C3_Witness ==
    /\ lastOp.op = "graphics_pipeline"
    /\ fault = "none"
    /\ \A s \in Shapes :
          /\ FullyBuilt(shapes[s])
          /\ RelCount(s, unwrap(shapes[s].graphics_pipeline).features.pipeline) = 0
          /\ \E h \in DOMAIN handles[s] :
                handles[s][h] = "pipeline" /\ RelCount(s, h) = 1

(***************************************************************************)
(* C4: constructing a Shape whose texture file could not be opened (empty  *)
(* texture bytes) succeeds: no device texture, but buffers and a pipeline. *)
(***************************************************************************)
C4_UntexturedConstructSucceeds ==
    (lastOp.op = "construct" /\ shapes[lastOp.shape].texture = <<>>) =>
        /\ fault = "none"
        /\ ~is_some(shapes[lastOp.shape].texture_buffer)
        /\ is_some(shapes[lastOp.shape].buffers)
        /\ is_some(shapes[lastOp.shape].graphics_pipeline)

(***************************************************************************)
(* C5: construct on a Shape that is already built fails with AlreadyBuilt  *)
(* and leaves the handles of the first build in place.                     *)
(***************************************************************************)
C5_SecondBuildRejected ==
    [][\A s \in Shapes :
          (ConstructStep(s) /\ is_some(shapes[s].graphics_pipeline)) =>
              /\ fault' = "AlreadyBuilt"
              /\ shapes'[s] = shapes[s]
      ]_vars

(***************************************************************************)
(* C6: whenever the dispatcher may record draws (the program has not       *)
(* panicked and the swapchain is Active) each Shape is fully built or      *)
(* fully unbuilt; a construct that returned left its Shape fully built;    *)
(* and a Shape for which a draw was recorded is fully built.               *)
(***************************************************************************)
C6_BuiltOrUnbuilt ==
    /\ (fault = "none" /\ phase = "Active") =>
           \A s \in Shapes : FullyBuilt(shapes[s]) \/ FullyUnbuilt(shapes[s])
    /\ (fault = "none" /\ lastOp.op = "construct") =>
           FullyBuilt(shapes[lastOp.shape])
    /\ (lastOp.op = "draw" /\ Len(DrawCmds) > 0) =>
           FullyBuilt(shapes[lastOp.shape])

C6_Witness ==
    /\ lastOp.op = "draw"
    /\ fault = "none"
    /\ Len(DrawCmds) > 0
    /\ calls[lastOp.shape].construct = 1
    /\ FullyBuilt(shapes[lastOp.shape])
    /\ \E s \in Shapes : FullyUnbuilt(shapes[s])

DestroyRank(kind) ==
    IF kind \in {"vertex_buffer", "vertex_memory", "index_buffer", "index_memory"}
    THEN 1
    ELSE IF kind \in {"sampler", "image_view", "image", "image_memory"}
    THEN 2
    ELSE 3

C8_BuffersTexturePipeline ==
    [][\A s \in Shapes : DestroyStep(s) =>
          \A i, j \in DOMAIN FreedInStep(s) :
              DestroyRank(handles[s][FreedInStep(s)[i]])
                  < DestroyRank(handles[s][FreedInStep(s)[j]]) => i < j
      ]_vars

(***************************************************************************)
(* C8 amended: destroy releases the texture first (sampler, image view,    *)
(* image, image memory), then the pipeline's descriptor set layout, then   *)
(* the vertex buffer and its memory, then the index buffer and its memory. *)
(***************************************************************************)
DestroyOrder ==
    <<"sampler", "image_view", "image", "image_memory",
      "descriptor_set_layout",
      "vertex_buffer", "vertex_memory", "index_buffer", "index_memory">>

C8_TextureLayoutBuffers ==
    [][\A s \in Shapes : DestroyStep(s) =>
          LET kinds == [i \in DOMAIN FreedInStep(s) |->
                           handles[s][FreedInStep(s)[i]]]
          IN  /\ Len(kinds) <= Len(DestroyOrder)
              /\ kinds = SubSeq(DestroyOrder, 1, Len(kinds))
              /\ fault' = "none" => kinds = DestroyOrder
      ]_vars

C8_Witness ==
    /\ lastOp.op = "destroy"
    /\ fault = "none"
    /\ Len(freed[lastOp.shape]) >= Len(DestroyOrder)
    /\ handles[lastOp.shape][freed[lastOp.shape][Len(freed[lastOp.shape])]]
          = "index_memory"

(***************************************************************************)
(* C9: a draw of a Shape that has no pipeline or no buffers panics before  *)
(* any command is recorded for it.                                         *)
(***************************************************************************)
C9_DrawUnbuiltFailsFast ==
    (/\ lastOp.op = "draw"
     /\ \/ ~is_some(shapes[lastOp.shape].graphics_pipeline)
        \/ ~is_some(shapes[lastOp.shape].buffers)) =>
        /\ fault # "none"
        /\ cmds = <<>>

C9_Witness ==
    /\ lastOp.op = "draw"
    /\ FullyUnbuilt(shapes[lastOp.shape])
    /\ fault = "unwrap_none"
    /\ cmds = <<>>

(***************************************************************************)
(* C10: a second destroy of the same Shape is a fatal error and passes no  *)
(* handle to the device.                                                   *)
(***************************************************************************)
C10_SecondDestroyRejected ==
    [][\A s \in Shapes :
          (DestroyStep(s) /\ calls[s].destroy >= 1 /\ calls[s].construct = 1) =>
              /\ fault' # "none"
              /\ freed' = freed
      ]_vars

(***************************************************************************)
(* C11: a built Shape has an index buffer exactly when its indexed flag is *)
(* set; building a non-indexed Shape creates the vertex buffer only.       *)
(***************************************************************************)
HandlesOfKind(s, kind) == {h \in DOMAIN handles[s] : handles[s][h] = kind}

C11_IndexBufferOnlyWhenIndexed ==
    \A s \in Shapes :
        calls[s].construct >= 1 =>
            /\ HandlesOfKind(s, "vertex_buffer") # {}
            /\ (HandlesOfKind(s, "index_buffer") # {} <=> shapes[s].indexed)

WordBits == 3
U32_MAX == 2^WordBits - 1
U32 == 0..U32_MAX

\* A surface dimension that is neither 0 nor u32::MAX.
MaxDim == 2
Dims == {0, MaxDim, U32_MAX}

\* Longest list of formats / present modes a surface advertises.
MaxListLen == 3
SeqsUpTo(S, n) == UNION {[1..k -> S] : k \in 0..n}
Range(f) == {f[i] : i \in DOMAIN f}

Extent2D(width, height) == [width |-> width, height |-> height]
Extents == {Extent2D(w, h) : w \in Dims, h \in Dims}

Formats == {"R8G8B8A8_SRGB", "B8G8R8A8_SRGB"}
ColorSpaces == {"SRGB_NONLINEAR", "EXTENDED_SRGB_NONLINEAR_EXT"}
SurfaceFormats == [format : Formats, color_space : ColorSpaces]
PresentModes == {"IMMEDIATE", "MAILBOX", "FIFO", "FIFO_RELAXED"}

\* a + b on u32: a debug build panics on overflow, a release build wraps.
u32_add(a, b) ==
    IF a + b <= U32_MAX THEN {Returned(a + b)}
    ELSE {Panicked("overflow"), Returned((a + b) % (2^WordBits))}

\* SwapChain::new, the image count it requests (one outcome per build).
swap_chain_image_count_clamp_always(capabilities) ==
    {IF r.fault # "none" THEN r
     ELSE IF unwrap(r.ret) > capabilities.max_image_count
          THEN Returned(capabilities.max_image_count)
          ELSE r :
     r \in u32_add(capabilities.min_image_count, 1)}

swap_chain_image_count(capabilities) ==
    {IF r.fault # "none" THEN r
     ELSE IF /\ capabilities.max_image_count > 0
             /\ unwrap(r.ret) > capabilities.max_image_count
          THEN Returned(capabilities.max_image_count)
          ELSE r :
     r \in u32_add(capabilities.min_image_count, 1)}

\* the loop of choose_swap_surface_format, from position i on
RECURSIVE find_surface_format(_, _)
find_surface_format(formats, i) ==
    IF i > Len(formats) THEN None
    ELSE IF /\ formats[i].format = "R8G8B8A8_SRGB"
            /\ formats[i].color_space = "EXTENDED_SRGB_NONLINEAR_EXT"
         THEN Some(formats[i])
         ELSE find_surface_format(formats, i + 1)

choose_swap_surface_format_last(formats) ==
    IF Len(formats) = 0 THEN Panicked("index_out_of_bounds")
    ELSE Returned(formats[Len(formats)])

choose_swap_surface_format(formats) ==
    LET found == find_surface_format(formats, 1)
    IN  IF is_some(found) THEN Returned(unwrap(found))
        ELSE IF Len(formats) = 0 THEN Panicked("index_out_of_bounds")
        ELSE Returned(formats[1])

choose_present_mode_first(present_modes) ==
    IF Len(present_modes) > 0 THEN Returned(present_modes[1])
    ELSE Returned("FIFO")

choose_present_mode(present_modes) ==
    IF \E i \in DOMAIN present_modes : present_modes[i] = "MAILBOX"
    THEN Returned("MAILBOX")
    ELSE Returned("FIFO")

\* Ord::clamp: asserts min <= max
clamp(x, min, max) ==
    IF min > max THEN Panicked("clamp_min_gt_max")
    ELSE IF x < min THEN Returned(min)
    ELSE IF x > max THEN Returned(max)
    ELSE Returned(x)

choose_swap_extent_unclamped(capabilities, size) ==
    IF capabilities.current_extent.width # U32_MAX
    THEN Returned(capabilities.current_extent)
    ELSE Returned(Extent2D(size.width, size.height))

choose_swap_extent(capabilities, size) ==
    IF capabilities.current_extent.width # U32_MAX
    THEN Returned(capabilities.current_extent)
    ELSE LET width  == clamp(size.width, capabilities.min_image_extent.width,
                             capabilities.max_image_extent.width)
             height == clamp(size.height, capabilities.min_image_extent.height,
                             capabilities.max_image_extent.height)
         IN  IF width.fault # "none" THEN width
             ELSE IF height.fault # "none" THEN height
             ELSE Returned(Extent2D(unwrap(width.ret), unwrap(height.ret)))

\* The renderable objects play no part in the pure-function specifications.
lifecycle_vars ==
    <<shapes, handles, freed, swap_chain, phase, cmds, fault, calls, ncalls,
      lastOp>>

NoShapes ==
    /\ shapes = [s \in Shapes |-> NewShape("missing.jpg", FALSE, 1)]
    /\ handles = [s \in Shapes |-> <<>>]
    /\ freed = [s \in Shapes |-> <<>>]
    /\ swap_chain = SwapChain(2)
    /\ phase = "Active"
    /\ cmds = <<>>
    /\ fault = "none"
    /\ calls = [s \in Shapes |-> [construct |-> 0, destroy |-> 0]]
    /\ ncalls = 0
    /\ lastOp = Op("new", 0, 0)

Pending(fn) == call.fn = fn /\ call.ret = None /\ call.fault = "none"
Done(fn) == call.fn = fn /\ (call.ret # None \/ call.fault # "none")
Finish(r) == call' = [call EXCEPT !.ret = r.ret, !.fault = r.fault]

SwapChainInit ==
    /\ NoShapes
    /\ \/ \E min \in U32, max \in U32 :
              call = Call("swap_chain_image_count",
                          [min_image_count |-> min, max_image_count |-> max])
       \/ \E formats \in SeqsUpTo(SurfaceFormats, MaxListLen) :
              call = Call("choose_swap_surface_format", formats)
       \/ \E present_modes \in SeqsUpTo(PresentModes, MaxListLen) :
              call = Call("choose_present_mode", present_modes)
       \/ \E current \in Extents, min \in Extents, max \in Extents,
             size \in Extents :
              call = Call("choose_swap_extent",
                          [capabilities |-> [current_extent |-> current,
                                             min_image_extent |-> min,
                                             max_image_extent |-> max],
                           size |-> size])

SwapChainImageCount ==
    /\ Pending("swap_chain_image_count")
    /\ \E r \in swap_chain_image_count(call.args) : Finish(r)
    /\ UNCHANGED lifecycle_vars

ChooseSwapSurfaceFormat ==
    /\ Pending("choose_swap_surface_format")
    /\ Finish(choose_swap_surface_format(call.args))
    /\ UNCHANGED lifecycle_vars

ChoosePresentMode ==
    /\ Pending("choose_present_mode")
    /\ Finish(choose_present_mode(call.args))
    /\ UNCHANGED lifecycle_vars

ChooseSwapExtent ==
    /\ Pending("choose_swap_extent")
    /\ Finish(choose_swap_extent(call.args.capabilities, call.args.size))
    /\ UNCHANGED lifecycle_vars

SwapChainNext ==
    \/ SwapChainImageCount
    \/ ChooseSwapSurfaceFormat
    \/ ChoosePresentMode
    \/ ChooseSwapExtent

SpecSwapChain == SwapChainInit /\ [][SwapChainNext]_vars

(***************************************************************************)
(* C13 (as stated): for all capability values the requested image count is *)
(* min_image_count + 1, or max_image_count when that is nonzero and        *)
(* smaller, and it is at least min_image_count whenever max_image_count is *)
(* 0 or >= min_image_count.                                                *)
(***************************************************************************)
ImageCountExpected(capabilities) ==
    IF /\ capabilities.max_image_count > 0
       /\ capabilities.min_image_count + 1 > capabilities.max_image_count
    THEN capabilities.max_image_count
    ELSE capabilities.min_image_count + 1

ImageCountAsStated ==
    /\ call.fault = "none"
    /\ call.ret = Some(ImageCountExpected(call.args))
    /\ (\/ call.args.max_image_count = 0
        \/ call.args.max_image_count >= call.args.min_image_count)
          => unwrap(call.ret) >= call.args.min_image_count

C13_ImageCountForAllCapabilities ==
    Done("swap_chain_image_count") => ImageCountAsStated

(***************************************************************************)
(* C13 (amended): the statement holds for min_image_count < u32::MAX; at   *)
(* min_image_count = u32::MAX the addition overflows, so the call panics   *)
(* (debug build) or requests the wrapped sum, which is 0 (release build).  *)
(***************************************************************************)
C13_ImageCountUnlessOverflow ==
    Done("swap_chain_image_count") =>
        IF call.args.min_image_count < U32_MAX
        THEN ImageCountAsStated
        ELSE call.fault = "overflow" \/ call.ret = Some(0)

C13_Witness ==
    /\ Done("swap_chain_image_count")
    /\ call.args.max_image_count > 0
    /\ call.args.min_image_count + 1 > call.args.max_image_count
    /\ call.args.max_image_count >= call.args.min_image_count
    /\ call.ret = Some(call.args.max_image_count)

(***************************************************************************)
(* C14: choose_swap_extent returns current_extent verbatim unless its      *)
(* width is the u32::MAX sentinel; with the sentinel it returns the window *)
(* size with width and height clamped to the surface's min/max image       *)
(* extent, so the returned extent lies within those bounds.                *)
(***************************************************************************)
Clamped(x, min, max) == IF x < min THEN min ELSE IF x > max THEN max ELSE x

C14_ExtentVerbatimOrClamped ==
    (Done("choose_swap_extent") /\ call.fault = "none") =>
        LET caps == call.args.capabilities
            size == call.args.size
            e    == unwrap(call.ret)
        IN  IF caps.current_extent.width # U32_MAX
            THEN e = caps.current_extent
            ELSE /\ e.width = Clamped(size.width, caps.min_image_extent.width,
                                      caps.max_image_extent.width)
                 /\ e.height = Clamped(size.height, caps.min_image_extent.height,
                                       caps.max_image_extent.height)
                 /\ caps.min_image_extent.width <= e.width
                 /\ e.width <= caps.max_image_extent.width
                 /\ caps.min_image_extent.height <= e.height
                 /\ e.height <= caps.max_image_extent.height

C14_Witness ==
    /\ Done("choose_swap_extent") /\ call.fault = "none"
    /\ call.args.capabilities.current_extent.width = U32_MAX
    /\ call.args.size.width > call.args.capabilities.max_image_extent.width
    /\ call.args.size.height < call.args.capabilities.min_image_extent.height
    /\ unwrap(call.ret) =
           Extent2D(call.args.capabilities.max_image_extent.width,
                    call.args.capabilities.min_image_extent.height)

(***************************************************************************)
(* C15: choose_swap_surface_format returns the first advertised format     *)
(* that is R8G8B8A8_SRGB with the extended-sRGB-nonlinear colour space     *)
(* when there is one, otherwise the first advertised format; what it       *)
(* returns is always a member of the advertised list.                      *)
(***************************************************************************)
Preferred(f) ==
    f.format = "R8G8B8A8_SRGB" /\ f.color_space = "EXTENDED_SRGB_NONLINEAR_EXT"

C15_PreferredElseFirstFormat ==
    (Done("choose_swap_surface_format") /\ call.fault = "none") =>
        LET formats == call.args
            f       == unwrap(call.ret)
        IN  /\ f \in Range(formats)
            /\ IF \E i \in DOMAIN formats : Preferred(formats[i])
               THEN \E i \in DOMAIN formats :
                        /\ Preferred(formats[i])
                        /\ \A j \in 1..(i - 1) : ~Preferred(formats[j])
                        /\ f = formats[i]
               ELSE f = formats[1]

C15_Witness ==
    /\ Done("choose_swap_surface_format") /\ call.fault = "none"
    /\ Len(call.args) >= 2
    /\ ~Preferred(call.args[1])
    /\ Preferred(unwrap(call.ret))

(***************************************************************************)
(* C16: choose_present_mode returns MAILBOX exactly when MAILBOX is        *)
(* advertised and FIFO in every other case, an empty list and a list       *)
(* without FIFO included.                                                  *)
(***************************************************************************)
C16_MailboxElseFifo ==
    Done("choose_present_mode") =>
        /\ call.fault = "none"
        /\ call.ret = Some("MAILBOX") <=> "MAILBOX" \in Range(call.args)
        /\ call.ret # Some("MAILBOX") => call.ret = Some("FIFO")

C16_Witness ==
    /\ Done("choose_present_mode")
    /\ call.args # <<>>
    /\ Range(call.args) \cap {"MAILBOX", "FIFO"} = {}
    /\ call.ret = Some("FIFO")

(***************************************************************************)
(* Geometry generators (src/src/shapes/mod.rs, crates/lambda_geometry).    *)
(* An f32 is a fraction n/d of naturals, d = 0 standing for the two        *)
(* non-finite values: 1/0 is +infinity and 0/0 is NaN.  Only non-negative  *)
(* values occur.  Angles stay symbolic: a position is kept in polar form.  *)
(***************************************************************************)
\* Largest sector_count / stack_count explored.
MaxCount == 4
\* Radii explored, in halves: 1/2 .. MaxRadius/2, and NaN.
MaxRadius == 2

f32(n, d) == [n |-> n, d |-> d]
NaN == f32(0, 0)
INFINITY == f32(1, 0)
f32_from(k) == f32(k, 1)
is_nan(x) == x.d = 0 /\ x.n = 0
is_finite(x) == x.d # 0

f32_add(a, b) ==
    IF is_nan(a) \/ is_nan(b) THEN NaN
    ELSE IF ~is_finite(a) \/ ~is_finite(b) THEN INFINITY
    ELSE IF a.d = b.d THEN f32(a.n + b.n, a.d)
    ELSE f32(a.n * b.d + b.n * a.d, a.d * b.d)

f32_mul(a, b) ==
    IF is_nan(a) \/ is_nan(b) THEN NaN
    ELSE IF ~is_finite(a) \/ ~is_finite(b)
         THEN (IF (is_finite(a) /\ a.n = 0) \/ (is_finite(b) /\ b.n = 0)
               THEN NaN ELSE INFINITY)
    ELSE f32(a.n * b.n, a.d * b.d)

f32_div(a, b) ==
    IF is_nan(a) \/ is_nan(b) THEN NaN
    ELSE IF ~is_finite(a) THEN (IF is_finite(b) THEN INFINITY ELSE NaN)
    ELSE IF ~is_finite(b) THEN f32_from(0)
    ELSE IF b.n = 0 THEN (IF a.n = 0 THEN NaN ELSE INFINITY)
    ELSE f32(a.n * b.d, a.d * b.n)

\* a <= b and a == b of IEEE 754: false as soon as one side is NaN
f32_le(a, b) == ~is_nan(a) /\ ~is_nan(b) /\ a.n * b.d <= b.n * a.d
f32_eq(a, b) == ~is_nan(a) /\ ~is_nan(b) /\ a.n * b.d = b.n * a.d

Radii == {f32(r, 2) : r \in 1..MaxRadius} \cup {NaN}
Counts == 0..MaxCount

VerticesAndIndices_new(vertices, indices) ==
    [vertices |-> vertices, indices |-> indices]

\* the point (cos(angle) * radius, sin(angle) * radius, 0), angle in degrees;
\* cos and sin of a non-finite angle are NaN
Polar(radius, angle) ==
    IF is_finite(angle) THEN [radius |-> radius, angle |-> angle]
    ELSE [radius |-> NaN, angle |-> NaN]

\* utility::make_point: the vertex at `angle` on `radius`; advances the angle
make_point(angle, radius, step, length, tex_coord) ==
    [vertex |-> [pos |-> Polar(radius, angle), tex_coord |-> tex_coord],
     angle  |-> f32_add(angle, step)]

\* the two triangles of the quad between stack i and stack i + 1 at sector j
quad_indices(sector_count, stack_count, i, j) ==
    LET k1 == i * (sector_count + 1) + j
        k2 == k1 + sector_count + 1
    IN  (IF i # 0 THEN <<k1, k2, k1 + 1>> ELSE <<>>) \o
        (IF i # stack_count - 1 THEN <<k1 + 1, k2, k2 + 1>> ELSE <<>>)

RECURSIVE spherical_indices_loop(_, _, _)
spherical_indices_loop(sector_count, stack_count, q) ==
    IF q >= sector_count * stack_count THEN <<>>
    ELSE quad_indices(sector_count, stack_count,
                      q \div sector_count, q % sector_count)
         \o spherical_indices_loop(sector_count, stack_count, q + 1)

\* utility::spherical_indices
spherical_indices(sector_count, stack_count) ==
    spherical_indices_loop(sector_count, stack_count, 0)

\* the body of ring's for loop, n iterations left
RECURSIVE ring_loop(_, _, _, _, _, _, _)
ring_loop(n, angle, vertices, inner_radius, outer_radius, angle_step, length) ==
    IF n = 0 THEN vertices
    ELSE LET outer == make_point(angle, outer_radius, angle_step, length,
                                 <<0, 0>>)
             inner == make_point(outer.angle, inner_radius, angle_step, length,
                                 <<1, 1>>)
         IN  ring_loop(n - 1, inner.angle,
                       vertices \o <<outer.vertex, inner.vertex>>,
                       inner_radius, outer_radius, angle_step, length)

\* ring as it would be if radii in the wrong order were swapped, not rejected
ring_swaps_radii(inner_radius, outer_radius, sector_count) ==
    LET lo == IF f32_le(inner_radius, outer_radius) THEN inner_radius
              ELSE outer_radius
        hi == IF f32_le(inner_radius, outer_radius) THEN outer_radius
              ELSE inner_radius
    IN  Returned(VerticesAndIndices_new(
            ring_loop(sector_count + 1, f32_from(0), <<>>, lo, hi,
                      f32_div(f32_from(180), f32_from(sector_count)), 1),
            spherical_indices(sector_count, 2)))

\* ring as it would be if each pair were pushed inner vertex first
ring_inner_first(inner_radius, outer_radius, sector_count) ==
    IF ~f32_le(inner_radius, outer_radius) THEN Panicked("assert")
    ELSE Returned(VerticesAndIndices_new(
            ring_loop(sector_count + 1, f32_from(0), <<>>, outer_radius,
                      inner_radius,
                      f32_div(f32_from(180), f32_from(sector_count)), 1),
            spherical_indices(sector_count, 2)))

ring(inner_radius, outer_radius, sector_count) ==
    IF ~f32_le(inner_radius, outer_radius) THEN Panicked("assert")
    ELSE LET angle      == f32_from(0)
             angle_step == f32_div(f32_from(180), f32_from(sector_count))
             length     == 1
         IN  Returned(VerticesAndIndices_new(
                 ring_loop(sector_count + 1, angle, <<>>, inner_radius,
                           outer_radius, angle_step, length),
                 spherical_indices(sector_count, 2)))

Coordinate3(x, y, z) == <<f32_from(x), f32_from(y), f32_from(z)>>
\* Sphere centres explored: the origin and a point off it.
Centres == {Coordinate3(0, 0, 0), Coordinate3(1, 0, 0)}

\* one sphere vertex; the angles are in units of PI, the stack angle is
\* kept as its distance i * stack_step from FRAC_PI_2.  A vector stays
\* symbolic: pos is centre + radius * direction(stack_angle, sector_angle)
\* and normal = pos * length is scale * direction + offset.
sphere_vertex(position, radius, sector_count, stack_count, i, j) ==
    LET length      == f32_div(f32_from(1), radius)
        sector_step == f32_div(f32_from(2), f32_from(sector_count))
        stack_step  == f32_div(f32_from(1), f32_from(stack_count))
        stack_angle  == f32_mul(f32_from(i), stack_step)
        sector_angle == f32_mul(f32_from(j), sector_step)
    IN  [pos |-> [radius |-> radius,
                  stack_angle |-> stack_angle,
                  sector_angle |-> sector_angle,
                  centre |-> position],
         normal |-> [scale |-> f32_mul(radius, length),
                     stack_angle |-> stack_angle,
                     sector_angle |-> sector_angle,
                     offset |-> [c \in 1..3 |-> f32_mul(position[c], length)]],
         tex_coord |-> <<f32_div(f32_from(j), f32_from(sector_count)),
                         f32_div(f32_from(i), f32_from(stack_count))>>]

\* the outer loop of sphere from stack i on; the inner loop pushes one row
RECURSIVE sphere_loop(_, _, _, _, _)
sphere_loop(position, radius, sector_count, stack_count, i) ==
    IF i > stack_count THEN <<>>
    ELSE [k \in 1..(sector_count + 1) |->
             sphere_vertex(position, radius, sector_count, stack_count, i, k - 1)]
         \o sphere_loop(position, radius, sector_count, stack_count, i + 1)

\* sphere as it would be with the sector loop outside the stack loop
RECURSIVE sphere_sector_loop(_, _, _, _, _)
sphere_sector_loop(position, radius, sector_count, stack_count, j) ==
    IF j > sector_count THEN <<>>
    ELSE [k \in 1..(stack_count + 1) |->
             sphere_vertex(position, radius, sector_count, stack_count, k - 1, j)]
         \o sphere_sector_loop(position, radius, sector_count, stack_count, j + 1)

sphere_sector_major(position, radius, sector_count, stack_count) ==
    Returned(VerticesAndIndices_new(
        sphere_sector_loop(position, radius, sector_count, stack_count, 0),
        spherical_indices(sector_count, stack_count)))

sphere(position, radius, sector_count, stack_count) ==
    Returned(VerticesAndIndices_new(
        sphere_loop(position, radius, sector_count, stack_count, 0),
        spherical_indices(sector_count, stack_count)))

SQUARE_INDICES == <<0, 1, 2, 2, 3, 0>>
SQUARE_CORNERS == << <<-1, -1, 1>>, <<1, -1, 1>>, <<1, 1, 1>>, <<-1, 1, 1>> >>

\* Longest list of positions handed to square_from_vertices.
MaxPositions == 8
Corners == {<<-1, -1, 1>>, <<1, 1, 1>>}

\* Square::vertices_and_indices (positions in half units)
square(position) ==
    LET r == square_from_vertices(SQUARE_CORNERS)
    IN  IF r.fault # "none" THEN r
        ELSE Returned(VerticesAndIndices_new(
                 [k \in 1..Len(unwrap(r.ret)) |->
                     [unwrap(r.ret)[k] EXCEPT
                         !.pos = <<@[1] + position[1], @[2] + position[2],
                                   @[3] + position[3]>>]],
                 SQUARE_INDICES))

\* cube as it would be if every face reused the index fan of the first face
cube_first_face_fan(radius) ==
    Returned(VerticesAndIndices_new(
        vertices_and_indices(NewShape("missing.jpg", FALSE, radius))
            .vertices_and_indices.vertices,
        [k \in 1..Len(CUBE_INDICES) |-> SQUARE_INDICES[((k - 1) % 6) + 1]]))

\* Cube::vertices_and_indices of a Cube of the given radius
cube(radius) ==
    Returned(vertices_and_indices(NewShape("missing.jpg", FALSE, radius))
                 .vertices_and_indices)

GeometryFns == {"ring", "sphere", "square", "cube"}

GeometryInit ==
    /\ NoShapes
    /\ \/ \E inner \in Radii, outer \in Radii, sector_count \in Counts :
              call = Call("ring", [inner_radius |-> inner,
                                   outer_radius |-> outer,
                                   sector_count |-> sector_count])
       \/ \E position \in Centres, radius \in Radii, sector_count \in Counts,
             stack_count \in Counts :
              call = Call("sphere", [position |-> position,
                                     radius |-> radius,
                                     sector_count |-> sector_count,
                                     stack_count |-> stack_count])
       \/ \E x \in 0..MaxRadius : call = Call("square", <<x, 0, 0>>)
       \/ \E radius \in 1..MaxRadius : call = Call("cube", radius)
       \/ \E vertices \in SeqsUpTo(Corners, MaxPositions) :
              call = Call("square_from_vertices", vertices)

Ring ==
    /\ Pending("ring")
    /\ Finish(ring(call.args.inner_radius, call.args.outer_radius,
                   call.args.sector_count))
    /\ UNCHANGED lifecycle_vars

Sphere ==
    /\ Pending("sphere")
    /\ Finish(sphere(call.args.position, call.args.radius,
                     call.args.sector_count, call.args.stack_count))
    /\ UNCHANGED lifecycle_vars

Square ==
    /\ Pending("square")
    /\ Finish(square(call.args))
    /\ UNCHANGED lifecycle_vars

Cube ==
    /\ Pending("cube")
    /\ Finish(cube(call.args))
    /\ UNCHANGED lifecycle_vars

SquareFromVertices ==
    /\ Pending("square_from_vertices")
    /\ Finish(square_from_vertices(call.args))
    /\ UNCHANGED lifecycle_vars

\* the generated geometry goes to the device: vertex and index buffer
ModelNew ==
    /\ call.fn \in GeometryFns
    /\ call.ret # None /\ call.fault = "none"
    /\ handles[1] = <<>>
    /\ handles' = [handles EXCEPT
                      ![1] = create_buffers(unwrap(call.ret), handles[1]).hs]
    /\ UNCHANGED <<shapes, freed, swap_chain, phase, cmds, fault, calls,
                   ncalls, lastOp, call>>

GeometryNext ==
    \/ Ring
    \/ Sphere
    \/ Square
    \/ Cube
    \/ SquareFromVertices
    \/ ModelNew

SpecGeometry == GeometryInit /\ [][GeometryNext]_vars

NoAllocation == \A s \in Shapes : handles[s] = <<>>

(***************************************************************************)
(* C17 (as stated): ring fails, with no geometry and before any GPU        *)
(* allocation, exactly when inner_radius > outer_radius; otherwise it      *)
(* succeeds with the radii as given (outer first, never swapped/clamped).  *)
(***************************************************************************)
RadiiAsGiven ==
    LET v == unwrap(call.ret).vertices
    IN  /\ v[1].pos.radius = call.args.outer_radius
        /\ v[2].pos.radius \in {call.args.inner_radius, NaN}

RingFailed == call.fault # "none" /\ call.ret = None /\ NoAllocation

C17_FailsExactlyWhenInnerGreater ==
    Done("ring") =>
        IF /\ ~is_nan(call.args.inner_radius) /\ ~is_nan(call.args.outer_radius)
           /\ ~f32_le(call.args.inner_radius, call.args.outer_radius)
        THEN RingFailed
        ELSE call.fault = "none" /\ call.ret # None /\ RadiiAsGiven

(***************************************************************************)
(* C17 (amended): ring fails, with no geometry and before any GPU          *)
(* allocation, exactly when inner_radius <= outer_radius does not hold,    *)
(* that is when inner_radius > outer_radius or a radius is NaN; otherwise  *)
(* it succeeds with the radii as given.                                    *)
(***************************************************************************)
C17_FailsUnlessInnerLeOuter ==
    Done("ring") =>
        IF f32_le(call.args.inner_radius, call.args.outer_radius)
        THEN call.fault = "none" /\ call.ret # None /\ RadiiAsGiven
        ELSE RingFailed

C17_Witness ==
    /\ Done("ring")
    /\ call.args.inner_radius = f32(2, 2)
    /\ call.args.outer_radius = f32(1, 2)
    /\ call.fault = "assert"

(***************************************************************************)
(* C18 (as stated): every accepted ring with sector_count S has exactly    *)
(* 2*(S+1) vertices, those at even positions on the outer radius and those *)
(* at odd positions on the inner radius, the first one at angle 0.         *)
(***************************************************************************)
RingLayout ==
    LET v == unwrap(call.ret).vertices
    IN  /\ Len(v) = 2 * (call.args.sector_count + 1)
        /\ \A k \in 0..(Len(v) - 1) :
               v[k + 1].pos.radius = (IF k % 2 = 0 THEN call.args.outer_radius
                                      ELSE call.args.inner_radius)
        /\ v[1].pos = [radius |-> call.args.outer_radius, angle |-> f32_from(0)]

C18_RingAlternatesOuterInner ==
    (Done("ring") /\ call.fault = "none") => RingLayout

(***************************************************************************)
(* C18 (amended): the layout holds for every accepted ring with            *)
(* sector_count S >= 1; for S = 0 the angle step 180/0 is infinite, and    *)
(* the two vertices produced are the outer-radius vertex at angle 0 and a  *)
(* vertex whose position is not a number.                                  *)
(***************************************************************************)
C18_RingAlternatesForPositiveSectors ==
    (Done("ring") /\ call.fault = "none") =>
        IF call.args.sector_count >= 1 THEN RingLayout
        ELSE LET v == unwrap(call.ret).vertices
             IN  /\ Len(v) = 2
                 /\ v[1].pos = [radius |-> call.args.outer_radius,
                                angle |-> f32_from(0)]
                 /\ is_nan(v[2].pos.radius)

C18_Witness ==
    /\ Done("ring") /\ call.fault = "none"
    /\ call.args.sector_count = 4
    /\ call.args.inner_radius = f32(1, 2)
    /\ call.args.outer_radius = f32(2, 2)
    /\ Len(unwrap(call.ret).vertices) = 10
    /\ unwrap(call.ret).vertices[3].pos = [radius |-> f32(2, 2),
                                           angle |-> f32(360, 4)]

(***************************************************************************)
(* C19: a sphere with sector_count S >= 1 and stack_count T >= 1 has       *)
(* exactly (T+1)*(S+1) vertices in stack-major order, the vertex of stack  *)
(* i and sector j at position i*(S+1)+j with texture coordinate            *)
(* (j/S, i/T): v = 0 on the first row, v = 1 on the last row, and every    *)
(* row holds a u = 0 and a u = 1 vertex.                                   *)
(***************************************************************************)
C19_SphereStackMajorUV ==
    (Done("sphere") /\ call.args.sector_count >= 1
                    /\ call.args.stack_count >= 1) =>
        /\ call.fault = "none"
        /\ LET S == call.args.sector_count
               T == call.args.stack_count
               v == unwrap(call.ret).vertices
               At(i, j) == v[i * (S + 1) + j + 1]
           IN  /\ Len(v) = (T + 1) * (S + 1)
               /\ \A i \in 0..T, j \in 0..S :
                      /\ f32_eq(At(i, j).tex_coord[1], f32(j, S))
                      /\ f32_eq(At(i, j).tex_coord[2], f32(i, T))
                      /\ f32_eq(At(i, j).pos.stack_angle, f32(i, T))
                      /\ f32_eq(At(i, j).pos.sector_angle, f32(2 * j, S))
               /\ \A j \in 0..S :
                      /\ f32_eq(At(0, j).tex_coord[2], f32_from(0))
                      /\ f32_eq(At(T, j).tex_coord[2], f32_from(1))
               /\ \A i \in 0..T :
                      /\ \E j \in 0..S : f32_eq(At(i, j).tex_coord[1], f32_from(0))
                      /\ \E j \in 0..S : f32_eq(At(i, j).tex_coord[1], f32_from(1))

C19_Witness ==
    /\ Done("sphere")
    /\ call.args.sector_count = 3 /\ call.args.stack_count = 2
    /\ Len(unwrap(call.ret).vertices) = 12
    /\ unwrap(call.ret).vertices[1 * 4 + 2 + 1].tex_coord = <<f32(2, 3), f32(1, 2)>>

(***************************************************************************)
(* C20: for every generated primitive (square, cube, sphere, ring) every   *)
(* value of the index list is strictly less than the number of vertices.   *)
(***************************************************************************)
C20_IndicesBelowVertexCount ==
    (call.fn \in GeometryFns /\ call.ret # None) =>
        \A k \in DOMAIN unwrap(call.ret).indices :
            unwrap(call.ret).indices[k] < Len(unwrap(call.ret).vertices)

(***************************************************************************)
(* C21: the cube has 24 vertices and 36 indices (a multiple of 3); the six *)
(* consecutive indices of face k in 0..5 are two triangles whose indices   *)
(* all lie in [4k, 4k+3], reference all four vertices of the face and      *)
(* share exactly one edge, the diagonal of the quad.                       *)
(***************************************************************************)
Differing(p, q) == Cardinality({c \in 1..3 : p[c] # q[c]})

C21_CubeFacesTwoTriangles ==
    Done("cube") =>
        /\ call.fault = "none"
        /\ LET v   == unwrap(call.ret).vertices
               idx == unwrap(call.ret).indices
               Tri(k, t) == {idx[6 * k + 3 * t + c] : c \in 1..3}
           IN  /\ Len(v) = 24
               /\ Len(idx) = 36
               /\ Len(idx) % 3 = 0
               /\ \A k \in 0..5 :
                      /\ Tri(k, 0) \cup Tri(k, 1) = (4 * k)..(4 * k + 3)
                      /\ Cardinality(Tri(k, 0)) = 3
                      /\ Cardinality(Tri(k, 1)) = 3
                      /\ Cardinality(Tri(k, 0) \cap Tri(k, 1)) = 2
                      /\ \A a, b \in Tri(k, 0) \cap Tri(k, 1) :
                             a # b => Differing(v[a + 1].pos, v[b + 1].pos) = 2

C21_Witness ==
    /\ Done("cube")
    /\ call.args = 2
    /\ Len(unwrap(call.ret).indices) = 36
    /\ unwrap(call.ret).indices[13] = 8

(***************************************************************************)
(* C22: square_from_vertices, given positions whose number is a multiple   *)
(* of 4, returns one vertex per position in the same order: vertex k has   *)
(* position input[k], white colour, zero normal and the texture coordinate *)
(* number k mod 4 of the cycle (1,0), (0,0), (0,1), (1,1); the index list  *)
(* of the Square is exactly 0,1,2,2,3,0.                                   *)
(***************************************************************************)
TexCycle == << <<1, 0>>, <<0, 0>>, <<0, 1>>, <<1, 1>> >>

C22_SquareVerticesAndFan ==
    /\ (Done("square_from_vertices") /\ Len(call.args) % 4 = 0) =>
           /\ call.fault = "none"
           /\ Len(unwrap(call.ret)) = Len(call.args)
           /\ \A k \in 0..(Len(call.args) - 1) :
                  unwrap(call.ret)[k + 1] =
                      [pos |-> call.args[k + 1], colour |-> <<1, 1, 1>>,
                       normal |-> <<0, 0, 0>>,
                       tex_coord |-> TexCycle[(k % 4) + 1]]
    /\ Done("square") =>
           /\ call.fault = "none"
           /\ unwrap(call.ret).indices = <<0, 1, 2, 2, 3, 0>>
           /\ Len(unwrap(call.ret).vertices) = 4

C22_Witness ==
    /\ Done("square_from_vertices")
    /\ Len(call.args) = 8
    /\ call.args[6] = <<1, 1, 1>> /\ call.args[7] = <<-1, -1, 1>>
    /\ unwrap(call.ret)[6].tex_coord = <<0, 0>>
    /\ unwrap(call.ret)[6].pos = <<1, 1, 1>>

(***************************************************************************)
(* C23 (as stated): for a cube of radius r the four vertices of each face  *)
(* carry the same normal, an axis-aligned unit vector computed from the    *)
(* unscaled face (so independent of r), and the coordinate of each vertex  *)
(* along the axis of its face normal has absolute value r.  Positions are  *)
(* in half units, so the value r is 2 * r here.                            *)
(***************************************************************************)
Abs(x) == IF x < 0 THEN -x ELSE x
AxisUnits == {<<1, 0, 0>>, <<-1, 0, 0>>, <<0, 1, 0>>, <<0, -1, 0>>,
              <<0, 0, 1>>, <<0, 0, -1>>}
Axis(n) == CHOOSE c \in 1..3 : n[c] # 0
UnscaledFace(c) ==
    calculate_normals(SubSeq(unwrap(square_from_vertices(CUBE_VERTICES).ret),
                             4 * c + 1, 4 * c + 4))

CubeFaceNormals(extent) ==
    LET v == unwrap(call.ret).vertices
    IN  \A c \in 0..5 :
            LET n == v[4 * c + 1].normal
            IN  /\ n \in AxisUnits
                /\ n = UnscaledFace(c)[1].normal
                /\ \A k \in 1..4 :
                       /\ v[4 * c + k].normal = n
                       /\ Abs(v[4 * c + k].pos[Axis(n)]) = extent

C24_SphereNormalsUnit ==
    (/\ Done("sphere")
     /\ is_finite(call.args.radius) /\ call.args.radius.n > 0
     /\ call.args.sector_count >= 1 /\ call.args.stack_count >= 1) =>
        /\ call.fault = "none"
        /\ \A k \in DOMAIN unwrap(call.ret).vertices :
               LET v == unwrap(call.ret).vertices[k]
               IN  /\ f32_eq(v.normal.scale, f32_from(1))
                   /\ v.normal.stack_angle = v.pos.stack_angle
                   /\ v.normal.sector_angle = v.pos.sector_angle
                   /\ \A c \in 1..3 : f32_eq(v.normal.offset[c], f32_from(0))

\* what does hold: the normals of a sphere centred at the origin are unit
SphereNormalsUnitAtOrigin ==
    (/\ Done("sphere")
     /\ is_finite(call.args.radius) /\ call.args.radius.n > 0
     /\ call.args.position = Coordinate3(0, 0, 0)) =>
        \A k \in DOMAIN unwrap(call.ret).vertices :
            LET v == unwrap(call.ret).vertices[k]
            IN  /\ f32_eq(v.normal.scale, f32_from(1))
                /\ \A c \in 1..3 : f32_eq(v.normal.offset[c], f32_from(0))

(***************************************************************************)
(* C25: the commands of a Shape's draw are recorded in the order bind      *)
(* pipeline, bind the descriptor set of the current swapchain image index, *)
(* bind the vertex buffer (binding 0, the given offsets), and only then    *)
(* any draw command; the index buffer, when bound, is bound after the      *)
(* vertex buffer and before the indexed draw.                              *)
(***************************************************************************)
CmdsOf(op) == {i \in DOMAIN cmds : cmds[i].op = op}

C25_BindsBeforeDraws ==
    (lastOp.op = "draw" /\ cmds # <<>>) =>
        LET sh == shapes[lastOp.shape]
            gp == unwrap(sh.graphics_pipeline)
        IN  /\ cmds[1] = Cmd("cmd_bind_pipeline", gp.features.pipeline, 0, 0,
                             <<>>, "")
            /\ Len(cmds) >= 2 =>
                   cmds[2] = Cmd("cmd_bind_descriptor_sets",
                                 gp.descriptor_set.descriptor_sets[lastOp.index + 1],
                                 gp.features.layout, 0, <<>>, "")
            /\ Len(cmds) >= 3 =>
                   cmds[3] = Cmd("cmd_bind_vertex_buffers",
                                 unwrap(sh.buffers).vertex.buffer, 0, 0, <<0>>, "")
            /\ \A d \in CmdsOf("cmd_draw") \cup CmdsOf("cmd_draw_indexed") : d > 3
            /\ \A b \in CmdsOf("cmd_bind_index_buffer") :
                   /\ b > 3
                   /\ cmds[b].handle = unwrap(sh.buffers).index.buffer
                   /\ \A d \in CmdsOf("cmd_draw_indexed") : b < d
            /\ CmdsOf("cmd_draw_indexed") # {} =>
                   CmdsOf("cmd_bind_index_buffer") # {}

C25_Witness ==
    /\ lastOp.op = "draw" /\ lastOp.index = 1
    /\ fault = "none"
    /\ shapes[lastOp.shape].indexed
    /\ Len(cmds) = 6
    /\ cmds[5].op = "cmd_bind_index_buffer"
    /\ cmds[6].op = "cmd_draw_indexed"

(***************************************************************************)
(* C26: recreate_drop releases, for the current pipeline of a Shape,       *)
(* exactly the uniform buffers (and their memories) created with that      *)
(* pipeline, each once, whatever the image counts of the swapchains seen   *)
(* so far, and it never indexes past the end of the uniform-buffer list.   *)
(***************************************************************************)
KindInStep(s, kind) ==
    {i \in DOMAIN FreedInStep(s) : handles[s][FreedInStep(s)[i]] = kind}

RecreateDropKinds ==
    {"pipeline", "pipeline_layout", "descriptor_pool", "uniform_buffer",
     "uniform_memory"}

DestroyKinds ==
    {"sampler", "image_view", "image", "image_memory",
     "descriptor_set_layout", "vertex_buffer", "vertex_memory",
     "index_buffer", "index_memory"}

KindsFreedInStep(s) == {handles[s][FreedInStep(s)[i]] : i \in DOMAIN FreedInStep(s)}

\* the two release paths keep to their own kinds of handle
ReleasePathsDisjoint ==
    [][/\ RecreateDropStep =>
              \A s \in Shapes : KindsFreedInStep(s) \subseteq RecreateDropKinds
       /\ \A s \in Shapes :
              DestroyStep(s) => KindsFreedInStep(s) \subseteq DestroyKinds
      ]_vars

\* the descriptor set layout of the pipeline Shape sh holds, if any
LayoutOf(sh) ==
    IF is_some(sh.graphics_pipeline)
    THEN Some(unwrap(sh.graphics_pipeline).descriptor_set.descriptor_set_layout)
    ELSE None

\* the step replaced the pipeline of Shape s and left the layout of the old
\* one unreleased
OrphansLayout(s) ==
    /\ is_some(LayoutOf(shapes[s]))
    /\ LayoutOf(shapes'[s]) # LayoutOf(shapes[s])
    /\ Cardinality({i \in DOMAIN freed'[s] :
                       freed'[s][i] = unwrap(LayoutOf(shapes[s]))}) = 0

C27_DisjointReleasesNoOrphanLayout ==
    [][/\ RecreateDropStep =>
              \A s \in Shapes : KindsFreedInStep(s) \subseteq RecreateDropKinds
       /\ \A s \in Shapes :
              DestroyStep(s) => KindsFreedInStep(s) \subseteq DestroyKinds
       /\ RecreatePipelinesStep => \A s \in Shapes : ~OrphansLayout(s)
      ]_vars

(***************************************************************************)
(* C28: construct runs texture creation, geometry generation, buffer       *)
(* creation, pipeline creation in that order: the handles of one construct *)
(* call are created texture first, then vertex/index buffers, then the     *)
(* pipeline objects; the stored buffers are created in the call and hold   *)
(* the geometry the call generated; a pipeline is created only after the   *)
(* texture step and is bound to the texture that step produced.            *)
(***************************************************************************)
BuildRank(kind) ==
    IF kind \in {"sampler", "image_view", "image", "image_memory"}
    THEN 1
    ELSE IF kind \in {"vertex_buffer", "vertex_memory", "index_buffer",
                      "index_memory"}
    THEN 2
    ELSE 3

\* the kinds of the handles Shape s was handed in the step just taken
CreatedInStep(s) == SubSeq(handles'[s], Len(handles[s]) + 1, Len(handles'[s]))

C28_TextureGeometryBuffersPipeline ==
    [][\A s \in Shapes : ConstructStep(s) =>
          LET new == CreatedInStep(s)
              sh  == shapes'[s]
              old == Len(handles[s])
          IN  /\ \A i, j \in DOMAIN new :
                     i < j => BuildRank(new[i]) <= BuildRank(new[j])
              /\ is_some(sh.buffers)
              /\ unwrap(sh.buffers).vertex.buffer > old
              /\ unwrap(sh.buffers).index.buffer > old
              /\ sh.vertices_and_indices.vertices # <<>>
              /\ unwrap(sh.buffers).vertex.len
                     = Len(sh.vertices_and_indices.vertices)
              /\ unwrap(sh.buffers).index.len
                     = Len(sh.vertices_and_indices.indices)
              /\ (sh.texture # <<>>) <=> (\E i \in DOMAIN new : BuildRank(new[i]) = 1)
              /\ (\E i \in DOMAIN new : BuildRank(new[i]) = 3) =>
                     /\ is_some(sh.texture_buffer)
                     /\ is_some(sh.graphics_pipeline)
                     /\ LET gp == unwrap(sh.graphics_pipeline)
                            tb == unwrap(sh.texture_buffer)
                        IN  /\ tb.image_view > old
                            /\ gp.image_view = tb.image_view
                            /\ gp.sampler = tb.sampler
                            /\ gp.features.pipeline > unwrap(sh.buffers).index.memory
                            /\ unwrap(sh.buffers).vertex.buffer > tb.image.memory
      ]_vars

\* a second construct of a textured Shape: every step ran again
C28_Witness ==
    /\ lastOp.op = "construct"
    /\ fault = "none"
    /\ LET s == lastOp.shape
       IN  /\ calls[s].construct = 2
           /\ Cardinality(HandlesOfKind(s, "sampler")) = 2
           /\ Cardinality(HandlesOfKind(s, "pipeline")) = 2
           /\ unwrap(shapes[s].buffers).vertex.len = 24
           /\ unwrap(shapes[s].graphics_pipeline).sampler
                  = unwrap(shapes[s].texture_buffer).sampler

(***************************************************************************)
(* Framebuffers and render pass (lambda_internal frame_buffer.rs, wave     *)
(* render.rs).  A native handle is modelled by the record of what the      *)
(* device created it from: an image view by its kind, format and sample    *)
(* count, a framebuffer by its create info.                                *)
(***************************************************************************)
\* Most images a swapchain holds.
MaxImages == 3

SampleCounts == {"TYPE_4", "TYPE_8"}
DepthFormats == {"D32_SFLOAT", "D24_UNORM_S8_UINT"}

ImageView(kind, id, format, samples) ==
    [kind |-> kind, id |-> id, format |-> format, samples |-> samples]

\* SwapChain::new: one single-sampled view per image, in image order
\* (create_image_views), all of the surface format
SwapChain_new(n, image_format, extent) ==
    [images |-> [i \in 1..n |-> i],
     image_views |-> [i \in 1..n |->
                         ImageView("swapchain_image", i, image_format, "TYPE_1")],
     image_format |-> image_format,
     extent |-> extent]

\* Resources: the multisampled colour and depth targets
Resources_new(swapchain, msaa_samples, depth_format) ==
    [colour |-> [view |-> ImageView("colour_resource", 0,
                                    swapchain.image_format, msaa_samples)],
     depth  |-> [view |-> ImageView("depth_resource", 0, depth_format,
                                    msaa_samples)]]

AttachmentDescription(format, samples, load_op, final_layout) ==
    [format |-> format, samples |-> samples, load_op |-> load_op,
     store_op |-> "DONT_CARE", initial_layout |-> "UNDEFINED",
     final_layout |-> final_layout]

\* create_render_pass: three attachments, one subpass referring to them
create_render_pass(swapchain, msaa_samples, depth_format) ==
    [attachments |->
        <<AttachmentDescription(swapchain.image_format, msaa_samples, "CLEAR",
                                "COLOR_ATTACHMENT_OPTIMAL"),
          AttachmentDescription(depth_format, msaa_samples, "CLEAR",
                                "DEPTH_STENCIL_ATTACHMENT_OPTIMAL"),
          AttachmentDescription(swapchain.image_format, "TYPE_1", "DONT_CARE",
                                "PRESENT_SRC_KHR")>>,
     subpass |-> [color_attachment |-> 0,
                  depth_stencil_attachment |-> 1,
                  resolve_attachment |-> 2]]

FramebufferCreateInfo(render_pass, attachments, width, height, layers) ==
    [render_pass |-> render_pass, attachments |-> attachments,
     width |-> width, height |-> height, layers |-> layers]

\* the loop of create_frame_buffers from image i on; the device rejects the
\* create call numbered fails_at (none when 0)
RECURSIVE frame_buffers_loop(_, _, _, _, _, _)
frame_buffers_loop(swap_chain_, render_pass, resources, fails_at, i, frame_buffers) ==
    IF i >= Len(swap_chain_.images)
    THEN Returned(frame_buffers)
    ELSE IF i + 1 > Len(swap_chain_.image_views)
    THEN Panicked("index_out_of_bounds")
    ELSE IF fails_at = i + 1
    THEN Panicked("Failed to create Frame Buffer!")
    ELSE frame_buffers_loop(swap_chain_, render_pass, resources, fails_at,
             i + 1,
             Append(frame_buffers,
                    FramebufferCreateInfo(
                        render_pass,
                        <<resources.colour.view, resources.depth.view,
                          swap_chain_.image_views[i + 1]>>,
                        swap_chain_.extent.width,
                        swap_chain_.extent.height,
                        1)))

\* create_frame_buffers as it would be if the swapchain image view came first
create_frame_buffers_view_first(swap_chain_, render_pass, resources, fails_at) ==
    IF fails_at \in 1..Len(swap_chain_.images)
    THEN Panicked("Failed to create Frame Buffer!")
    ELSE Returned([i \in 1..Len(swap_chain_.images) |->
             FramebufferCreateInfo(
                 render_pass,
                 <<swap_chain_.image_views[i], resources.colour.view,
                   resources.depth.view>>,
                 swap_chain_.extent.width, swap_chain_.extent.height, 1)])

create_frame_buffers(swap_chain_, render_pass, resources, fails_at) ==
    frame_buffers_loop(swap_chain_, render_pass, resources, fails_at, 0, <<>>)

FrameBuffersInit ==
    /\ NoShapes
    /\ \E n \in 1..MaxImages, image_format \in Formats, extent \in Extents,
          msaa_samples \in SampleCounts, depth_format \in DepthFormats :
          \E fails_at \in 0..n :
              LET sc == SwapChain_new(n, image_format, extent)
              IN  call = Call("create_frame_buffers",
                              [swap_chain |-> sc,
                               render_pass |-> create_render_pass(
                                   sc, msaa_samples, depth_format),
                               resources |-> Resources_new(
                                   sc, msaa_samples, depth_format),
                               fails_at |-> fails_at])

CreateFrameBuffers ==
    /\ Pending("create_frame_buffers")
    /\ Finish(create_frame_buffers(call.args.swap_chain, call.args.render_pass,
                                   call.args.resources, call.args.fails_at))
    /\ UNCHANGED lifecycle_vars

FrameBuffersNext == CreateFrameBuffers

SpecFrameBuffers == FrameBuffersInit /\ [][FrameBuffersNext]_vars

(***************************************************************************)
(* C29: create_frame_buffers returns one framebuffer per swapchain image,  *)
(* in image order; framebuffer i has the attachments colour resource view, *)
(* depth resource view, swapchain image view i in that order, one layer    *)
(* and the swapchain extent as width and height, and each attachment fits  *)
(* the render pass attachment of the same index: colour 0, depth 1,        *)
(* resolve 2.                                                              *)
(***************************************************************************)
\* the view at slot k (from 0) has the format and sample count the render
\* pass declares for attachment k
FitsAttachment(frame_buffer, k) ==
    /\ frame_buffer.attachments[k + 1].format
           = frame_buffer.render_pass.attachments[k + 1].format
    /\ frame_buffer.attachments[k + 1].samples
           = frame_buffer.render_pass.attachments[k + 1].samples

C29_OneFramebufferPerImage ==
    (Done("create_frame_buffers") /\ call.fault = "none") =>
        LET sc  == call.args.swap_chain
            fbs == unwrap(call.ret)
        IN  /\ Len(fbs) = Len(sc.images)
            /\ \A i \in DOMAIN fbs :
                   LET subpass == fbs[i].render_pass.subpass
                   IN  /\ fbs[i].attachments
                              = <<call.args.resources.colour.view,
                                  call.args.resources.depth.view,
                                  sc.image_views[i]>>
                       /\ fbs[i].attachments[3].id = sc.images[i]
                       /\ fbs[i].layers = 1
                       /\ fbs[i].width = sc.extent.width
                       /\ fbs[i].height = sc.extent.height
                       /\ fbs[i].render_pass = call.args.render_pass
                       /\ fbs[i].attachments[subpass.color_attachment + 1].kind
                              = "colour_resource"
                       /\ fbs[i].attachments[subpass.depth_stencil_attachment + 1]
                              .kind = "depth_resource"
                       /\ fbs[i].attachments[subpass.resolve_attachment + 1].kind
                              = "swapchain_image"
                       /\ subpass = [color_attachment |-> 0,
                                     depth_stencil_attachment |-> 1,
                                     resolve_attachment |-> 2]
                       /\ \A k \in 0..2 : FitsAttachment(fbs[i], k)

C29_Witness ==
    /\ Done("create_frame_buffers")
    /\ call.fault = "none"
    /\ Len(unwrap(call.ret)) = 3
    /\ unwrap(call.ret)[3].attachments[3].id = 3
    /\ unwrap(call.ret)[3].width = MaxDim
    /\ unwrap(call.ret)[3].height = U32_MAX

(***************************************************************************)
(* Window input (wave display.rs).  The event loop calls handle_inputs     *)
(* once per event; control flow, camera and the mouse_pressed flag are     *)
(* handed in by mutable reference and carried from one call to the next.   *)
(* The camera is the log of the calls it received.                         *)
(***************************************************************************)
\* Most events delivered in one run of the event loop.
MaxEvents == 3

\* id of the window handed to handle_inputs
ThisWindow == 1
WindowIds == {ThisWindow, 2}
ElementStates == {"Pressed", "Released"}

WindowEvent(event, window_id, state, virtual_keycode) ==
    [type |-> "WindowEvent", event |-> event, window_id |-> window_id,
     state |-> state, virtual_keycode |-> virtual_keycode]

DeviceEvent(event) ==
    [type |-> "DeviceEvent", event |-> event, window_id |-> 0,
     state |-> "Released", virtual_keycode |-> None]

Events ==
    {WindowEvent("CloseRequested", w, "Released", None) : w \in WindowIds}
    \cup {WindowEvent("KeyboardInput", ThisWindow, st, k) :
              st \in ElementStates, k \in {None, Some("W")}}
    \cup {WindowEvent("MouseInput", w, st, None) :
              w \in WindowIds, st \in ElementStates}
    \cup {WindowEvent("Resized", ThisWindow, "Released", None)}
    \cup {DeviceEvent(e) : e \in {"MouseWheel", "MouseMotion", "Added"}}

\* what handle_inputs leaves behind its three mutable references
Handled(control_flow, camera, mouse_pressed) ==
    Returned([control_flow |-> control_flow, camera |-> camera,
              mouse_pressed |-> mouse_pressed])

\* handle_inputs as it would be if mouse motion were forwarded whatever the
\* flag
handle_inputs_motion_always(control_flow, event, window, camera, mouse_pressed) ==
    IF event.type = "WindowEvent" /\ event.event = "CloseRequested"
           /\ event.window_id = window
    THEN Handled("Exit", camera, mouse_pressed)
    ELSE IF event.type = "WindowEvent" /\ event.event = "KeyboardInput"
                /\ is_some(event.virtual_keycode)
    THEN Handled("Poll", Append(camera, "process_keyboard"), mouse_pressed)
    ELSE IF event.type = "WindowEvent" /\ event.event = "MouseInput"
    THEN Handled("Poll", camera, event.state = "Pressed")
    ELSE IF event.type = "DeviceEvent" /\ event.event = "MouseWheel"
    THEN Handled("Poll", Append(camera, "process_scroll"), mouse_pressed)
    ELSE IF event.type = "DeviceEvent" /\ event.event = "MouseMotion"
    THEN Handled("Poll", Append(camera, "process_mouse"), mouse_pressed)
    ELSE Handled("Poll", camera, mouse_pressed)

\* handle_inputs: control flow is set to Poll first, then the event is
\* matched arm by arm
handle_inputs(control_flow, event, window, camera, mouse_pressed) ==
    IF event.type = "WindowEvent" /\ event.event = "CloseRequested"
           /\ event.window_id = window
    THEN Handled("Exit", camera, mouse_pressed)
    ELSE IF event.type = "WindowEvent" /\ event.event = "KeyboardInput"
                /\ is_some(event.virtual_keycode)
    THEN Handled("Poll", Append(camera, "process_keyboard"), mouse_pressed)
    ELSE IF event.type = "WindowEvent" /\ event.event = "MouseInput"
    THEN Handled("Poll", camera, event.state = "Pressed")
    ELSE IF event.type = "DeviceEvent"
    THEN IF event.event = "MouseWheel"
         THEN Handled("Poll", Append(camera, "process_scroll"), mouse_pressed)
         ELSE IF event.event = "MouseMotion"
         THEN IF mouse_pressed
              THEN Handled("Poll", Append(camera, "process_mouse"),
                           mouse_pressed)
              ELSE Handled("Poll", camera, mouse_pressed)
         ELSE Handled("Poll", camera, mouse_pressed)
    ELSE Handled("Poll", camera, mouse_pressed)

\* one call of handle_inputs; `caller_flag` is the value mouse_pressed had
\* before the first event and `history` the events handled before this one
InputCall(control_flow, event, camera, mouse_pressed, caller_flag, history) ==
    Call("handle_inputs",
         [control_flow |-> control_flow, event |-> event,
          window |-> ThisWindow, camera |-> camera,
          mouse_pressed |-> mouse_pressed, caller_flag |-> caller_flag,
          history |-> history])

InputsInit ==
    /\ NoShapes
    /\ \E mouse_pressed \in BOOLEAN, control_flow \in {"Poll", "Wait"},
          event \in Events :
          call = InputCall(control_flow, event, <<>>, mouse_pressed,
                           mouse_pressed, <<>>)

HandleInputs ==
    /\ Pending("handle_inputs")
    /\ Finish(handle_inputs(call.args.control_flow, call.args.event,
                            call.args.window, call.args.camera,
                            call.args.mouse_pressed))
    /\ UNCHANGED lifecycle_vars

\* the event loop delivers the next event
NextEvent ==
    /\ Done("handle_inputs")
    /\ Len(call.args.history) + 1 < MaxEvents
    /\ \E event \in Events :
          call' = InputCall(unwrap(call.ret).control_flow, event,
                            unwrap(call.ret).camera,
                            unwrap(call.ret).mouse_pressed,
                            call.args.caller_flag,
                            Append(call.args.history, call.args.event))
    /\ UNCHANGED lifecycle_vars

InputsNext ==
    \/ HandleInputs
    \/ NextEvent

SpecInputs == InputsInit /\ [][InputsNext]_vars

(***************************************************************************)
(* C30: a MouseMotion event reaches the camera exactly when the most       *)
(* recent MouseInput event before it had state Pressed (the caller's flag  *)
(* when there was none); the control flow is Exit after a CloseRequested   *)
(* event of this window and Poll after every other event; keyboard and     *)
(* scroll events leave the mouse_pressed flag as it was.                   *)
(***************************************************************************)
IsMouseInput(event) == event.type = "WindowEvent" /\ event.event = "MouseInput"

\* whether the last MouseInput of `history` was a press; `flag` if none
LastMouseInputPressed(history, flag) ==
    LET inputs == {i \in DOMAIN history : IsMouseInput(history[i])}
    IN  IF inputs = {}
        THEN flag
        ELSE history[CHOOSE i \in inputs : \A j \in inputs : j <= i].state
                 = "Pressed"

C30_MotionOnlyWhilePressed ==
    Done("handle_inputs") =>
        LET a == call.args
            r == unwrap(call.ret)
            e == a.event
        IN  /\ call.fault = "none"
            /\ (r.camera = Append(a.camera, "process_mouse"))
                   <=> (/\ e.type = "DeviceEvent"
                        /\ e.event = "MouseMotion"
                        /\ LastMouseInputPressed(a.history, a.caller_flag))
            /\ (e.type = "DeviceEvent" /\ e.event = "MouseMotion"
                    /\ ~LastMouseInputPressed(a.history, a.caller_flag))
                   => r.camera = a.camera
            /\ r.control_flow
                   = IF /\ e.type = "WindowEvent"
                        /\ e.event = "CloseRequested"
                        /\ e.window_id = a.window
                     THEN "Exit"
                     ELSE "Poll"
            /\ (\/ e.event = "KeyboardInput"
                \/ e.event = "MouseWheel") => r.mouse_pressed = a.mouse_pressed

\* a motion forwarded after a key and a mouse press, the caller's flag unset
C30_Witness ==
    /\ Done("handle_inputs")
    /\ call.args.event = DeviceEvent("MouseMotion")
    /\ ~call.args.caller_flag
    /\ Len(call.args.history) = 2
    /\ call.args.history[1].event = "KeyboardInput"
    /\ IsMouseInput(call.args.history[2])
    /\ call.args.history[2].state = "Pressed"
    /\ unwrap(call.ret).camera = <<"process_keyboard", "process_mouse">>

====
